---- MODULE Spec2Model ----
(***************************************************************************)
(* Model of the icon-pack preparation scripts                              *)
(*   .github/scripts/prepare-iconpacks.py   (current script)               *)
(*   .github/scripts/automate_iconpacks.py  (older script, no reference    *)
(*                                           rewrite, no .webp)            *)
(*                                                                         *)
(* A string is a sequence of one-character strings, so that lower(),       *)
(* re.sub, os.path.splitext and the f-string concatenations are computed   *)
(* character by character.  A text file is a sequence of tokens (records): *)
(* the literal markers and the generated blocks are single tokens.         *)
(***************************************************************************)
EXTENDS Integers, Sequences, FiniteSets, TLC

VARIABLES
    script,     \* which script runs: "prepare" or "automate"
    tree,       \* ./iconpacks : sequence of directory entries, in os.listdir order
    tree0,      \* ./iconpacks as it was when the process started
    drawable,   \* ./app/src/main/res/drawable : file name -> content
    manifest,   \* AndroidManifest.xml, a sequence of tokens
    manifest0,  \* the manifest as it was when the process started
    arrays,     \* arrays.xml, a sequence of tokens
    arrays0,    \* arrays.xml as it was when the process started
    pc,         \* position of main(): start, rewritten, copied, manifested, done, exit
    exitCode,   \* -1 while running, 0 after the success message, 1 after sys.exit(1)
    completed,  \* the stages that ran to their end, in order
    failed,     \* the stage that called sys.exit(1), or "none"
    writes,     \* target files opened for writing so far
    arg,        \* input of the pure name functions (second specification)
    fn,         \* pure function applied so far: none, slug, normalize
    res         \* successive results of applying fn

vars == <<script, tree, tree0, drawable, manifest, manifest0, arrays, arrays0,
          pc, exitCode, completed, failed, writes, arg, fn, res>>

pipelineVars == <<script, tree, tree0, drawable, manifest, manifest0, arrays,
                  arrays0, pc, exitCode, completed, failed, writes>>

nameVars == <<arg, fn, res>>

----------------------------------------------------------------------------
(* Bounds *)

\* at most this many entries in ./iconpacks
MaxPacks == 2

\* longest generated input string of the pure name functions
MaxNameLen == 3

----------------------------------------------------------------------------
(* Characters and strings *)

UpperChars == <<"A","B","C","D","E","F","G","H","I","J","K","L","M",
                "N","O","P","Q","R","S","T","U","V","W","X","Y","Z">>

LowerChars == <<"a","b","c","d","e","f","g","h","i","j","k","l","m",
                "n","o","p","q","r","s","t","u","v","w","x","y","z">>

Digits == {"0","1","2","3","4","5","6","7","8","9"}

Range(s) == { s[i] : i \in DOMAIN s }

UpperSet == Range(UpperChars)

LowerSet == Range(LowerChars)

\* the lower-case letter of every upper-case letter
LowerOf == [ c \in UpperSet |-> LowerChars[CHOOSE i \in DOMAIN UpperChars : UpperChars[i] = c] ]

\* the upper-case letter of every lower-case letter
UpperOf == [ c \in LowerSet |-> UpperChars[CHOOSE i \in DOMAIN LowerChars : LowerChars[i] = c] ]

\* str.lower() on one character
LowerChar(c) == IF c \in UpperSet THEN LowerOf[c] ELSE c

\* the wrong case function: str.swapcase() on one character
SwapCaseChar(c) ==
    IF c \in UpperSet THEN LowerOf[c] ELSE IF c \in LowerSet THEN UpperOf[c] ELSE c

\* str.lower()
Lower(s) == [ i \in DOMAIN s |-> LowerChar(s[i]) ]

\* the character class [a-zA-Z0-9]
Alnum == UpperSet \cup LowerSet \cup Digits

IsAlnum(c) == c \in Alnum

\* re.sub(r'[^a-zA-Z0-9]', '_', s)
SubNonAlnum(s) == [ i \in DOMAIN s |-> IF IsAlnum(s[i]) THEN s[i] ELSE "_" ]

SlugSwapCase(pack_name) ==
    SubNonAlnum([ i \in DOMAIN pack_name |-> SwapCaseChar(pack_name[i]) ])

\* pack_name_lower = re.sub(r'[^a-zA-Z0-9]', '_', pack_name.lower())
Slug(pack_name) == SubNonAlnum(Lower(pack_name))

COM_ANDROID_SYSTEMUI == <<"c","o","m",".","a","n","d","r","o","i","d",".",
                          "s","y","s","t","e","m","u","i">>

COM_ANDROID_SETTINGS == <<"c","o","m",".","a","n","d","r","o","i","d",".",
                          "s","e","t","t","i","n","g","s">>

SYSTEMUI == <<"s","y","s","t","e","m","u","i">>

SETTINGS == <<"s","e","t","t","i","n","g","s">>

COM_FOO == <<"c","o","m",".","F","o","o">>

\* a lookup table whose second entry maps to the full name again
NormalizeSwappedEntry(package_name) ==
    IF package_name = COM_ANDROID_SYSTEMUI THEN SYSTEMUI
    ELSE IF package_name = SETTINGS THEN COM_ANDROID_SETTINGS
    ELSE package_name

\* special_cases.get(package_name, package_name)
normalize_package_name(package_name) ==
    IF package_name = COM_ANDROID_SYSTEMUI THEN SYSTEMUI
    ELSE IF package_name = COM_ANDROID_SETTINGS THEN SETTINGS
    ELSE package_name

\* index of the last "." of s, 0 when there is none
LastDot(s) ==
    IF \E i \in DOMAIN s : s[i] = "."
    THEN CHOOSE i \in DOMAIN s : s[i] = "." /\ \A j \in DOMAIN s : j > i => s[j] # "."
    ELSE 0

\* os.path.splitext(file): the extension starts at the last dot, unless only
\* dots precede it (leading dots belong to the root)
Splitext(file) ==
    LET d == LastDot(file) IN
    IF d > 0 /\ \E j \in 1..(d - 1) : file[j] # "."
    THEN <<SubSeq(file, 1, d - 1), SubSeq(file, d, Len(file))>>
    ELSE <<file, <<>> >>

XML == <<".","x","m","l">>

PNG == <<".","p","n","g">>

JPG == <<".","j","p","g">>

JPEG == <<".","j","p","e","g">>

WEBP == <<".","w","e","b","p">>

\* VALID_DRAWABLE_EXTENSIONS of prepare-iconpacks.py; the literal list of
\* automate_iconpacks.py
Whitelist(s) ==
    IF s = "prepare" THEN {XML, PNG, JPG, JPEG, WEBP} ELSE {XML, PNG, JPG, JPEG}

\* file_extension = os.path.splitext(file)[1].lower()
FileExtension(file) == Lower(Splitext(file)[2])

\* if file_extension in VALID_DRAWABLE_EXTENSIONS
IsValidDrawable(s, file) == FileExtension(file) \in Whitelist(s)

----------------------------------------------------------------------------
(* Files and directories *)

RECURSIVE Concat(_)
\* the concatenation of a sequence of sequences: what successive "+=" build
Concat(ss) == IF Len(ss) = 0 THEN <<>> ELSE Head(ss) \o Concat(Tail(ss))

\* tokens of a resource file: plain text, an "@drawable/<name>" reference
\* (name is the run of [a-zA-Z0-9_] the pattern matches), or image bytes
Text(c) == [kind |-> "text", name |-> <<c>>]

Ref(n) == [kind |-> "ref", name |-> n]

Bytes(c) == [kind |-> "bytes", name |-> <<c>>]

File(n, c) == [name |-> n, content |-> c]

Dir(n, fs) == [name |-> n, isdir |-> TRUE, files |-> fs]

NonDir(n) == [name |-> n, isdir |-> FALSE, files |-> <<>>]

A_PNG == <<"a",".","p","n","g">>

A_PNG_UPPER == <<"a",".","P","N","G">>

B_XML == <<"b",".","x","m","l">>

C_WEBP == <<"c",".","w","e","b","p">>

N_TXT == <<"n",".","t","x","t">>

README == <<"r","e","a","d","m","e">>

\* the contents an icon pack directory may have: sequences of entries, in
\* os.listdir order
PackContents ==
    { << Dir(COM_ANDROID_SYSTEMUI,
             << File(A_PNG, <<Bytes("1")>>),
                File(B_XML, <<Text("<"), Ref(<<"a">>), Text(">")>>),
                File(N_TXT, <<Text("n")>>) >>) >>,
      << Dir(SYSTEMUI, << File(A_PNG, <<Bytes("2")>>) >>),
         Dir(COM_ANDROID_SYSTEMUI,
             << File(A_PNG_UPPER, <<Bytes("3")>>),
                File(A_PNG, <<Bytes("4")>>) >>),
         NonDir(README) >>,
      << Dir(COM_FOO,
             << File(B_XML, <<Ref(<<"c">>), Text("-"), Ref(<<"b">>)>>),
                File(C_WEBP, <<Bytes("5")>>) >>),
         Dir(COM_ANDROID_SETTINGS, << File(B_XML, <<Text("v")>>) >>) >> }

PackNames == { <<"A","-","b">>, <<"a","_","b">>, <<"P","1">> }

\* an entry of ./iconpacks: an icon pack directory, or a stray plain file
RootEntries ==
    { [name |-> n, isdir |-> TRUE, entries |-> c] : n \in PackNames, c \in PackContents }
    \cup { [name |-> README, isdir |-> FALSE, entries |-> <<>>] }

\* the entries of one directory have distinct names
DistinctNames(t) == \A i, j \in DOMAIN t : i # j => t[i].name # t[j].name

Trees ==
    UNION { { t \in [1..n -> RootEntries] : DistinctNames(t) } : n \in 0..MaxPacks }

(* Tokens of AndroidManifest.xml: the two literal markers, other text, and
   generated activity blocks *)
MText(c) == [kind |-> "text", name |-> <<c>>, label |-> <<>>]

START_COMMENT == [kind |-> "start", name |-> <<>>, label |-> <<>>]

END_COMMENT == [kind |-> "end", name |-> <<>>, label |-> <<>>]

Activity(n, l) == [kind |-> "activity", name |-> n, label |-> l]

M_OK == << MText("h"), START_COMMENT, Activity(<<"o">>, <<"O">>), END_COMMENT, MText("t") >>

M_TWICE == << START_COMMENT, START_COMMENT, END_COMMENT, MText("t"), END_COMMENT >>

M_REVERSED == << MText("h"), END_COMMENT, MText("m"), START_COMMENT, MText("t") >>

M_NO_END == << MText("h"), START_COMMENT, MText("t") >>

M_NO_START == << END_COMMENT, MText("t") >>

(* Tokens of arrays.xml: "<resources>", "</resources>", other text, and
   generated string arrays *)
AText(c) == [kind |-> "text", name |-> <<c>>, items |-> <<>>]

RESOURCES_OPEN == [kind |-> "open", name |-> <<>>, items |-> <<>>]

RESOURCES_CLOSE == [kind |-> "close", name |-> <<>>, items |-> <<>>]

StringArray(n, its) == [kind |-> "array", name |-> n, items |-> its]

A_OK == << AText("h"), RESOURCES_OPEN, StringArray(<<"o">>, << <<"x">> >>), RESOURCES_CLOSE >>

A_TWICE == << RESOURCES_OPEN, AText("m"), RESOURCES_CLOSE, AText("t"), RESOURCES_CLOSE >>

A_REVERSED == << AText("h"), RESOURCES_CLOSE, AText("m"), RESOURCES_OPEN >>

A_NO_CLOSE == << AText("h"), RESOURCES_OPEN >>

A_NO_OPEN == << RESOURCES_CLOSE >>

\* the two target files as the process finds them: <<manifest, arrays>>
TargetFiles ==
    { <<M_OK, A_OK>>, <<M_TWICE, A_TWICE>>, <<M_REVERSED, A_OK>>, <<M_OK, A_REVERSED>>,
      <<M_NO_END, A_OK>>, <<M_NO_START, A_TWICE>>, <<M_OK, A_NO_CLOSE>>,
      <<M_TWICE, A_NO_OPEN>> }

\* content.find(marker): index of the first token of that kind, 0 for -1
Find(content, kind) ==
    IF \E i \in DOMAIN content : content[i].kind = kind
    THEN CHOOSE i \in DOMAIN content :
            content[i].kind = kind /\ \A j \in 1..(i - 1) : content[j].kind # kind
    ELSE 0

Max(a, b) == IF a > b THEN a ELSE b

----------------------------------------------------------------------------
(* The functions of the scripts *)

\* packs = [folder for folder in os.listdir(iconpacks_dir) if os.path.isdir(...)]
get_icon_packs(t) == SelectSeq(t, LAMBDA e : e.isdir)

\* the body of replace(match): f"{drawable_name}_{package_name}_{pack_name_lower}"
NewDrawableName(drawable_name, package_name, pack_name_lower) ==
    drawable_name \o <<"_">> \o package_name \o <<"_">> \o pack_name_lower

\* re.sub(search_pattern, replace, content): every reference is replaced, the
\* rest of the content is kept
replace_drawable_references(content, package_name, pack_name_lower) ==
    [ i \in DOMAIN content |->
        IF content[i].kind = "ref"
        THEN Ref(NewDrawableName(content[i].name, package_name, pack_name_lower))
        ELSE content[i] ]

\* a file name without the package lower-cased
NewFileNameNoLower(file, package_name, pack_name_lower) ==
    Splitext(file)[1] \o <<"_">> \o package_name \o <<"_">>
        \o pack_name_lower \o FileExtension(file)

\* new_file_name = f"{os.path.splitext(file)[0]}_{package_name.lower()}_{pack_name_lower}{file_extension}"
NewFileName(file, package_name, pack_name_lower) ==
    Splitext(file)[1] \o <<"_">> \o Lower(package_name) \o <<"_">>
        \o pack_name_lower \o FileExtension(file)

\* the three nested loops shared by the stages: every whitelisted file of
\* every directory of every icon pack, in enumeration order, as index triples
\* into the tree
Jobs(s, t) ==
    Concat([ p \in DOMAIN t |->
        IF t[p].isdir
        THEN Concat([ k \in DOMAIN t[p].entries |->
                IF t[p].entries[k].isdir
                THEN Concat([ f \in DOMAIN t[p].entries[k].files |->
                        IF IsValidDrawable(s, t[p].entries[k].files[f].name)
                        THEN << [p |-> p, k |-> k, f |-> f] >>
                        ELSE << >> ])
                ELSE << >> ])
        ELSE << >> ])

JobFile(t, j) == t[j.p].entries[j.k].files[j.f]

\* package_name = normalize_package_name(package_name)
JobPackage(t, j) == normalize_package_name(t[j.p].entries[j.k].name)

JobSlug(t, j) == Slug(t[j.p].name)

RECURSIVE RewriteFirst(_, _, _)
\* update_drawable_references after the first n files: an .xml file is read,
\* and written back when the substitution changed it
RewriteFirst(t, jobs, n) ==
    IF n = 0 THEN t
    ELSE LET u == RewriteFirst(t, jobs, n - 1)
             j == jobs[n]
             file == JobFile(u, j)
             updated_content ==
                 replace_drawable_references(file.content, JobPackage(u, j), JobSlug(u, j))
         IN IF FileExtension(file.name) = XML /\ updated_content # file.content
            THEN [u EXCEPT ![j.p].entries[j.k].files[j.f].content = updated_content]
            ELSE u

\* a copy that keeps a file already present under the new name
CopyKeepExisting(dir, new_file_name, content) ==
    [ x \in DOMAIN dir \cup {new_file_name} |->
        IF x \in DOMAIN dir THEN dir[x] ELSE content ]

\* shutil.copy(original_file_path, new_file_path): creates or overwrites
ShutilCopy(dir, new_file_name, content) ==
    [ x \in DOMAIN dir \cup {new_file_name} |->
        IF x = new_file_name THEN content ELSE dir[x] ]

RECURSIVE CopyFirst(_, _, _, _)
\* the drawable directory after the first n files were copied
CopyFirst(dir, t, jobs, n) ==
    IF n = 0 THEN dir
    ELSE LET j == jobs[n]
             file == JobFile(t, j)
         IN ShutilCopy(CopyFirst(dir, t, jobs, n - 1),
                       NewFileName(file.name, JobPackage(t, j), JobSlug(t, j)),
                       file.content)

\* the activities string of update_manifest: one block per icon pack
Activities(t) ==
    LET packs == get_icon_packs(t) IN
    Concat([ p \in DOMAIN packs |->
        << Activity(Slug(packs[p].name), packs[p].name) >> ])

\* content[:start_idx + len(start_marker)] + generated + content[end_idx:]
Splice(content, start_idx, end_idx, generated) ==
    SubSeq(content, 1, start_idx) \o generated
        \o SubSeq(content, end_idx, Len(content))

MAPPING_SOURCE_ == <<"m","a","p","p","i","n","g","_","s","o","u","r","c","e","_">>

REPLACEMENT_ == <<"r","e","p","l","a","c","e","m","e","n","t","_">>

\* the first generated array of a pack: the names of its two other arrays
IndexArray(pack_name_lower) ==
    StringArray(pack_name_lower,
                << MAPPING_SOURCE_ \o pack_name_lower, REPLACEMENT_ \o pack_name_lower >>)

\* mapping-source items without the whitelist test
MappingSourceItemsAllFiles(s, pack) ==
    Concat([ k \in DOMAIN pack.entries |->
        IF pack.entries[k].isdir
        THEN [ f \in DOMAIN pack.entries[k].files |->
                pack.entries[k].name \o <<":">>
                    \o Splitext(pack.entries[k].files[f].name)[1] ]
        ELSE << >> ])

\* the items of mapping_source_<slug>: f"{package_name}:{os.path.splitext(file)[0]}"
MappingSourceItems(s, pack) ==
    Concat([ k \in DOMAIN pack.entries |->
        IF pack.entries[k].isdir
        THEN Concat([ f \in DOMAIN pack.entries[k].files |->
                IF IsValidDrawable(s, pack.entries[k].files[f].name)
                THEN << pack.entries[k].name \o <<":">>
                          \o Splitext(pack.entries[k].files[f].name)[1] >>
                ELSE << >> ])
        ELSE << >> ])

\* replacement items that skip image files
ReplacementItemsXmlOnly(s, pack) ==
    Concat([ k \in DOMAIN pack.entries |->
        IF pack.entries[k].isdir
        THEN Concat([ f \in DOMAIN pack.entries[k].files |->
                IF FileExtension(pack.entries[k].files[f].name) = XML
                THEN << Splitext(pack.entries[k].files[f].name)[1] \o <<"_">>
                          \o Lower(normalize_package_name(pack.entries[k].name))
                          \o <<"_">> \o Slug(pack.name) >>
                ELSE << >> ])
        ELSE << >> ])

\* the items of replacement_<slug>:
\* f"{os.path.splitext(file)[0]}_{package_name.lower()}_{pack_name_lower}"
ReplacementItems(s, pack) ==
    Concat([ k \in DOMAIN pack.entries |->
        IF pack.entries[k].isdir
        THEN Concat([ f \in DOMAIN pack.entries[k].files |->
                IF IsValidDrawable(s, pack.entries[k].files[f].name)
                THEN << Splitext(pack.entries[k].files[f].name)[1] \o <<"_">>
                          \o Lower(normalize_package_name(pack.entries[k].name))
                          \o <<"_">> \o Slug(pack.name) >>
                ELSE << >> ])
        ELSE << >> ])

\* the array_updates string of update_arrays: three arrays per icon pack
ArrayUpdates(s, t) ==
    LET packs == get_icon_packs(t) IN
    Concat([ p \in DOMAIN packs |->
        << IndexArray(Slug(packs[p].name)),
           StringArray(MAPPING_SOURCE_ \o Slug(packs[p].name),
                       MappingSourceItems(s, packs[p])),
           StringArray(REPLACEMENT_ \o Slug(packs[p].name),
                       ReplacementItems(s, packs[p])) >> ])

----------------------------------------------------------------------------
(* The pipeline: main() of either script *)

Init ==
    /\ script \in {"prepare", "automate"}
    /\ tree \in Trees
    /\ tree0 = tree
    /\ drawable = << >>
    /\ \E target \in TargetFiles : manifest = target[1] /\ arrays = target[2]
    /\ manifest0 = manifest
    /\ arrays0 = arrays
    /\ pc = "start"
    /\ exitCode = -1
    /\ completed = << >>
    /\ failed = "none"
    /\ writes = {}
    /\ arg = << >>
    /\ fn = "none"
    /\ res = << >>

\* an error that is logged without ending the process
ExitIgnored(stage) ==
    /\ pc' = (CASE stage = "rewrite" -> "rewritten" [] stage = "copy" -> "copied"
                 [] stage = "manifest" -> "manifested" [] OTHER -> "done")
    /\ exitCode' = IF stage = "arrays" THEN 0 ELSE exitCode
    /\ failed' = stage
    /\ UNCHANGED <<script, tree0, manifest0, arrays0, completed>>

\* LOGGER.error(...); sys.exit(1)
Exit(stage) ==
    /\ pc' = "exit"
    /\ exitCode' = 1
    /\ failed' = stage
    /\ UNCHANGED <<script, tree0, manifest0, arrays0, completed>>

\* a stage ran to its end and main() goes on
Proceed(stage, next) ==
    /\ pc' = next
    /\ completed' = Append(completed, stage)
    /\ exitCode' = IF next = "done" THEN 0 ELSE exitCode
    /\ UNCHANGED <<script, tree0, manifest0, arrays0, failed>>

\* update_drawable_references(), called first by copy_and_rename_files() of
\* prepare-iconpacks.py
UpdateDrawableReferences ==
    /\ pc = "start"
    /\ script = "prepare"
    /\ LET jobs == Jobs(script, tree) IN tree' = RewriteFirst(tree, jobs, Len(jobs))
    /\ Proceed("rewrite", "rewritten")
    /\ UNCHANGED <<drawable, manifest, arrays, writes>>

\* an exception in update_drawable_references() after n files were handled
UpdateDrawableReferencesError ==
    /\ pc = "start"
    /\ script = "prepare"
    /\ LET jobs == Jobs(script, tree) IN
          \E n \in 0..Max(Len(jobs) - 1, 0) : tree' = RewriteFirst(tree, jobs, n)
    /\ Exit("rewrite")
    /\ UNCHANGED <<drawable, manifest, arrays, writes>>

CopyReady ==
    \/ pc = "rewritten"
    \/ pc = "start" /\ script = "automate"

\* the copy loop of copy_and_rename_files()
CopyAndRenameFiles ==
    /\ CopyReady
    /\ LET jobs == Jobs(script, tree) IN
          /\ drawable' = CopyFirst(drawable, tree, jobs, Len(jobs))
          /\ writes' = IF Len(jobs) > 0 THEN writes \cup {"drawable"} ELSE writes
    /\ Proceed("copy", "copied")
    /\ UNCHANGED <<tree, manifest, arrays>>

\* an exception in the copy loop after n files were copied
CopyAndRenameFilesError ==
    /\ CopyReady
    /\ LET jobs == Jobs(script, tree) IN
          \E n \in 0..Max(Len(jobs) - 1, 0) :
             /\ drawable' = CopyFirst(drawable, tree, jobs, n)
             /\ writes' = IF n > 0 THEN writes \cup {"drawable"} ELSE writes
    /\ Exit("copy")
    /\ UNCHANGED <<tree, manifest, arrays>>

\* if start_idx == -1 or end_idx == -1
ManifestMarkersMissing(content) == Find(content, "start") = 0 \/ Find(content, "end") = 0

\* update_manifest() with both markers found
UpdateManifest ==
    /\ pc = "copied"
    /\ ~ManifestMarkersMissing(manifest)
    /\ manifest' = Splice(manifest, Find(manifest, "start"), Find(manifest, "end"),
                          Activities(tree))
    /\ writes' = writes \cup {"manifest"}
    /\ Proceed("manifest", "manifested")
    /\ UNCHANGED <<tree, drawable, arrays>>

\* update_manifest() without the marker test: -1 is used as an index
UpdateManifestIgnoresMissingMarker ==
    /\ pc = "copied"
    /\ ManifestMarkersMissing(manifest)
    /\ manifest' = Activities(tree) \o manifest
    /\ writes' = writes \cup {"manifest"}
    /\ Proceed("manifest", "manifested")
    /\ UNCHANGED <<tree, drawable, arrays>>

\* update_manifest() with a marker missing: sys.exit(1) before any write
UpdateManifestMissingMarker ==
    /\ pc = "copied"
    /\ ManifestMarkersMissing(manifest)
    /\ Exit("manifest")
    /\ UNCHANGED <<tree, drawable, manifest, arrays, writes>>

\* an exception in update_manifest(): while reading, while listing the packs,
\* or while writing (the file was opened with 'w' and is left truncated)
UpdateManifestError ==
    /\ pc = "copied"
    /\ \E at \in {"read", "list", "write"} :
          /\ at # "read" => ~ManifestMarkersMissing(manifest)
          /\ manifest' = IF at = "write" THEN << >> ELSE manifest
          /\ writes' = IF at = "write" THEN writes \cup {"manifest"} ELSE writes
    /\ Exit("manifest")
    /\ UNCHANGED <<tree, drawable, arrays>>

\* if start_resources == -1 or end_resources == -1
ArraysMarkersMissing(content) == Find(content, "open") = 0 \/ Find(content, "close") = 0

\* update_arrays() with both tags found, then the success message of main()
UpdateArrays ==
    /\ pc = "manifested"
    /\ ~ArraysMarkersMissing(arrays)
    /\ arrays' = Splice(arrays, Find(arrays, "open"), Find(arrays, "close"),
                        ArrayUpdates(script, tree))
    /\ writes' = writes \cup {"arrays"}
    /\ Proceed("arrays", "done")
    /\ UNCHANGED <<tree, drawable, manifest>>

\* update_arrays() with a tag missing: sys.exit(1) before any write
UpdateArraysMissingMarker ==
    /\ pc = "manifested"
    /\ ArraysMarkersMissing(arrays)
    /\ Exit("arrays")
    /\ UNCHANGED <<tree, drawable, manifest, arrays, writes>>

\* an exception in update_arrays(): while reading, while listing, or while
\* writing (the file is left truncated)
UpdateArraysError ==
    /\ pc = "manifested"
    /\ \E at \in {"read", "list", "write"} :
          /\ at # "read" => ~ArraysMarkersMissing(arrays)
          /\ arrays' = IF at = "write" THEN << >> ELSE arrays
          /\ writes' = IF at = "write" THEN writes \cup {"arrays"} ELSE writes
    /\ Exit("arrays")
    /\ UNCHANGED <<tree, drawable, manifest>>

Next ==
    \/ UpdateDrawableReferences /\ UNCHANGED nameVars
    \/ UpdateDrawableReferencesError /\ UNCHANGED nameVars
    \/ CopyAndRenameFiles /\ UNCHANGED nameVars
    \/ CopyAndRenameFilesError /\ UNCHANGED nameVars
    \/ UpdateManifest /\ UNCHANGED nameVars
    \/ UpdateManifestMissingMarker /\ UNCHANGED nameVars
    \/ UpdateManifestError /\ UNCHANGED nameVars
    \/ UpdateArrays /\ UNCHANGED nameVars
    \/ UpdateArraysMissingMarker /\ UNCHANGED nameVars
    \/ UpdateArraysError /\ UNCHANGED nameVars

Spec == Init /\ [][Next]_vars

----------------------------------------------------------------------------
(* The pure name functions, applied to generated strings *)

NameAlphabet == {"A", "b", "Z", "7", "_", "-", "."}

\* every string over the alphabet up to the bound, and the names the lookup
\* table of normalize_package_name knows
NameInputs ==
    UNION { [1..n -> NameAlphabet] : n \in 0..MaxNameLen }
    \cup {COM_ANDROID_SYSTEMUI, COM_ANDROID_SETTINGS, SYSTEMUI, SETTINGS, COM_FOO}

InitNames ==
    /\ script = "prepare"
    /\ tree = << >>
    /\ tree0 = << >>
    /\ drawable = << >>
    /\ manifest = << >>
    /\ manifest0 = << >>
    /\ arrays = << >>
    /\ arrays0 = << >>
    /\ pc = "idle"
    /\ exitCode = -1
    /\ completed = << >>
    /\ failed = "none"
    /\ writes = {}
    /\ arg \in NameInputs
    /\ fn = "none"
    /\ res = << >>

\* the last value computed, or the input
Current == IF Len(res) = 0 THEN arg ELSE res[Len(res)]

\* slug the input, then slug the result
ApplySlug ==
    /\ fn \in {"none", "slug"}
    /\ Len(res) < 2
    /\ fn' = "slug"
    /\ res' = Append(res, Slug(Current))
    /\ UNCHANGED <<arg>>

\* normalize the input, then normalize the result
ApplyNormalize ==
    /\ fn \in {"none", "normalize"}
    /\ Len(res) < 2
    /\ fn' = "normalize"
    /\ res' = Append(res, normalize_package_name(Current))
    /\ UNCHANGED <<arg>>

NextNames ==
    \/ ApplySlug /\ UNCHANGED pipelineVars
    \/ ApplyNormalize /\ UNCHANGED pipelineVars

SpecNames == InitNames /\ [][NextNames]_vars

----------------------------------------------------------------------------
(* Vocabulary of the properties *)

\* the stage has run to its end
Done(stage) == \E i \in DOMAIN completed : completed[i] = stage

\* the icon packs of a tree: its directories, in enumeration order
PacksOf(t) == SelectSeq(t, LAMBDA e : e.isdir)

\* the files of the package directories of a pack, as <<k, f>> index pairs
PackFiles(pack) ==
    UNION { { <<k, f>> : f \in DOMAIN pack.entries[k].files } :
            k \in { k \in DOMAIN pack.entries : pack.entries[k].isdir } }

\* the files of a pack the running script takes
PackSources(pack) ==
    { x \in PackFiles(pack) :
        Lower(Splitext(pack.entries[x[1]].files[x[2]].name)[2]) \in Whitelist(script) }

\* the files of a tree the running script takes, as <<p, k, f>> index triples
Sources(t) ==
    UNION { { <<p, x[1], x[2]>> : x \in PackSources(t[p]) } :
            p \in { p \in DOMAIN t : t[p].isdir } }

SourceFile(t, x) == t[x[1]].entries[x[2]].files[x[3]]

SourcePackage(t, x) == t[x[1]].entries[x[2]].name

SourcePack(t, x) == t[x[1]].name

\* x comes before y in enumeration order
Before(x, y) ==
    \/ x[1] < y[1]
    \/ x[1] = y[1] /\ x[2] < y[2]
    \/ x[1] = y[1] /\ x[2] = y[2] /\ x[3] < y[3]

\* the name the specification gives to a copied file, the package lower-cased
GeneratedName(t, x) ==
    Splitext(SourceFile(t, x).name)[1] \o <<"_">>
        \o Lower(normalize_package_name(SourcePackage(t, x))) \o <<"_">>
        \o Slug(SourcePack(t, x)) \o Lower(Splitext(SourceFile(t, x).name)[2])

\* the tokens after the first opening marker, up to the next closing marker
Span(content, open, close) ==
    LET s == Find(content, open)
        after == { i \in (s + 1)..Len(content) : content[i].kind = close }
        e == IF after = {} THEN Len(content) + 1
             ELSE CHOOSE i \in after : \A j \in after : i <= j
    IN SubSeq(content, s + 1, e - 1)

HasBoth(content, open, close) ==
    /\ \E i \in DOMAIN content : content[i].kind = open
    /\ \E i \in DOMAIN content : content[i].kind = close

\* every file of every package directory of every icon pack
TreeFiles(t) ==
    UNION { { <<p, x[1], x[2]>> : x \in PackFiles(t[p]) } :
            p \in { p \in DOMAIN t : t[p].isdir } }

\* the whitelist as the specification lists it
ListedExtensions == {XML, PNG, JPG, JPEG, WEBP}

----------------------------------------------------------------------------
(* C1 *)

\* C1 as stated: once the copy loop has run, every file whose extension is
\* one of .xml .png .jpg .jpeg .webp has a copy in the drawable directory
\* named basename_normalize(K)_slug(P) plus its extension.
C1_NameAsStated ==
    Done("copy") =>
        \A x \in TreeFiles(tree0) :
            Splitext(SourceFile(tree0, x).name)[2] \in ListedExtensions =>
                Splitext(SourceFile(tree0, x).name)[1] \o <<"_">>
                    \o normalize_package_name(SourcePackage(tree0, x)) \o <<"_">>
                    \o Slug(SourcePack(tree0, x))
                    \o Splitext(SourceFile(tree0, x).name)[2]
                  \in DOMAIN drawable

\* C1 amended: once the copy loop has run, every file whose extension is in
\* the whitelist of the running script (.xml .png .jpg .jpeg, and .webp in
\* prepare-iconpacks.py only) has a copy in the drawable directory named
\* basename_lower(normalize(K))_slug(P) plus its extension.
C1_NameLowerCased ==
    Done("copy") =>
        \A x \in TreeFiles(tree0) :
            Splitext(SourceFile(tree0, x).name)[2] \in Whitelist(script) =>
                Splitext(SourceFile(tree0, x).name)[1] \o <<"_">>
                    \o Lower(normalize_package_name(SourcePackage(tree0, x))) \o <<"_">>
                    \o Slug(SourcePack(tree0, x))
                    \o Splitext(SourceFile(tree0, x).name)[2]
                  \in DOMAIN drawable

\* the copy loop has run over a package directory whose name has an
\* upper-case letter and holds a whitelisted file
C1_Witness ==
    /\ Done("copy")
    /\ \E x \in TreeFiles(tree0) :
          /\ Splitext(SourceFile(tree0, x).name)[2] \in Whitelist(script)
          /\ Lower(SourcePackage(tree0, x)) # SourcePackage(tree0, x)

----------------------------------------------------------------------------
(* C8 *)

\* C8 as stated: after the reference rewrite of prepare-iconpacks.py, every
\* reference of every .xml resource file names what the copy loop calls a file
\* with that basename in the same package directory and pack; and when the
\* run has copied such a file, the drawable directory holds it.
C8_ReferenceNamesCopiedFile ==
    (script = "prepare" /\ Done("rewrite")) =>
        \A x \in Sources(tree0) :
            Lower(Splitext(SourceFile(tree0, x).name)[2]) = XML =>
                \A i \in DOMAIN SourceFile(tree0, x).content :
                    SourceFile(tree0, x).content[i].kind = "ref" =>
                        LET old == SourceFile(tree0, x).content[i].name
                            new == SourceFile(tree, x).content[i].name
                            renamed == NewFileName(old \o PNG,
                                           normalize_package_name(SourcePackage(tree0, x)),
                                           Slug(SourcePack(tree0, x)))
                        IN /\ SourceFile(tree, x).content[i].kind = "ref"
                           /\ new = Splitext(renamed)[1]
                           /\ (Done("copy") /\ \E y \in Sources(tree0) :
                                   /\ y[1] = x[1] /\ y[2] = x[2]
                                   /\ Splitext(SourceFile(tree0, y).name)[1] = old)
                              => \E n \in DOMAIN drawable : Splitext(n)[1] = new

\* C8 for package directories whose normalized name has no upper-case letter
C8_LowerCasePackages ==
    (script = "prepare" /\ Done("rewrite")) =>
        \A x \in Sources(tree0) :
            (/\ Lower(Splitext(SourceFile(tree0, x).name)[2]) = XML
             /\ Lower(SourcePackage(tree0, x)) = SourcePackage(tree0, x)) =>
                \A i \in DOMAIN SourceFile(tree0, x).content :
                    SourceFile(tree0, x).content[i].kind = "ref" =>
                        SourceFile(tree, x).content[i]
                          = Ref(Splitext(NewFileName(
                                  SourceFile(tree0, x).content[i].name \o PNG,
                                  normalize_package_name(SourcePackage(tree0, x)),
                                  Slug(SourcePack(tree0, x))))[1])

----------------------------------------------------------------------------
(* C9 *)

\* C9: once the copy loop has run, every source file's generated name is a
\* file of the drawable directory, and that file holds the content of the
\* last source, in enumeration order, that generates the name; after the
\* arrays splice the replacement array of every pack still has one item per
\* source file of the pack.
C9_LastCopyWins ==
    /\ Done("copy") =>
          \A x \in Sources(tree) :
              /\ GeneratedName(tree, x) \in DOMAIN drawable
              /\ (\A y \in Sources(tree) :
                      Before(x, y) => GeneratedName(tree, y) # GeneratedName(tree, x))
                 => drawable[GeneratedName(tree, x)] = SourceFile(tree, x).content
    /\ Done("arrays") =>
          \A p \in DOMAIN PacksOf(tree) :
              LET span == Span(arrays, "open", "close") IN
              /\ 3 * p <= Len(span)
              /\ Len(span[3 * p].items) = Cardinality(PackSources(PacksOf(tree)[p]))

\* a run that ended with the success message although two sources with
\* different contents generate the same file name
C9_Witness ==
    /\ pc = "done"
    /\ exitCode = 0
    /\ \E x, y \in Sources(tree) :
          /\ Before(x, y)
          /\ GeneratedName(tree, x) = GeneratedName(tree, y)
          /\ SourceFile(tree, x).content # SourceFile(tree, y).content
          /\ x[1] # y[1]

----------------------------------------------------------------------------
(* C2 *)

\* one activity block per icon pack, in enumeration order
ExpectedActivities ==
    [ p \in DOMAIN PacksOf(tree0) |->
        Activity(Slug(PacksOf(tree0)[p].name), PacksOf(tree0)[p].name) ]

\* C2 as stated: after update_manifest of prepare-iconpacks.py has run on a
\* manifest with both markers, the text up to and including the start marker
\* and the text from the end marker to the end of the file are as before, and
\* the span between the markers holds exactly one activity block per pack, in
\* order.
C2_ManifestFrame ==
    (script = "prepare" /\ Done("manifest") /\ HasBoth(manifest0, "start", "end")) =>
        /\ SubSeq(manifest, 1, Find(manifest, "start"))
             = SubSeq(manifest0, 1, Find(manifest0, "start"))
        /\ SubSeq(manifest, Find(manifest, "end"), Len(manifest))
             = SubSeq(manifest0, Find(manifest0, "end"), Len(manifest0))
        /\ Span(manifest, "start", "end") = ExpectedActivities

\* C2 for manifests whose first start marker precedes their first end marker
C2_ManifestFrameOrdered ==
    (Done("manifest") /\ HasBoth(manifest0, "start", "end")
       /\ Find(manifest0, "start") < Find(manifest0, "end")) =>
        /\ SubSeq(manifest, 1, Find(manifest, "start"))
             = SubSeq(manifest0, 1, Find(manifest0, "start"))
        /\ SubSeq(manifest, Find(manifest, "end"), Len(manifest))
             = SubSeq(manifest0, Find(manifest0, "end"), Len(manifest0))
        /\ Span(manifest, "start", "end") = ExpectedActivities

----------------------------------------------------------------------------
(* C3 *)

\* C3: after update_arrays has run on an arrays file with both tags, the
\* span after "<resources>" up to the next "</resources>" holds, for every
\* icon pack in order, exactly three string arrays, named slug,
\* mapping_source_slug and replacement_slug; the last two have one item per
\* whitelisted file of the pack.
C3_ThreeArraysPerPack ==
    (Done("arrays") /\ HasBoth(arrays0, "open", "close")) =>
        LET span == Span(arrays, "open", "close")
            packs == PacksOf(tree0)
        IN /\ Len(span) = 3 * Len(packs)
           /\ \A i \in DOMAIN span : span[i].kind = "array"
           /\ \A p \in DOMAIN packs :
                 /\ span[3 * p - 2].name = Slug(packs[p].name)
                 /\ span[3 * p - 1].name = MAPPING_SOURCE_ \o Slug(packs[p].name)
                 /\ span[3 * p].name = REPLACEMENT_ \o Slug(packs[p].name)
                 /\ Len(span[3 * p - 1].items) = Len(span[3 * p].items)
                 /\ Len(span[3 * p].items) = Cardinality(PackSources(packs[p]))

\* update_arrays has run over a pack that holds whitelisted files next to a
\* file that is not whitelisted
C3_Witness ==
    /\ Done("arrays")
    /\ \E p \in DOMAIN PacksOf(tree0) :
          /\ PackSources(PacksOf(tree0)[p]) # {}
          /\ PackSources(PacksOf(tree0)[p]) # PackFiles(PacksOf(tree0)[p])

----------------------------------------------------------------------------
(* C4 *)

\* C4: once update_manifest has run on a manifest that lacks a marker, the
\* process has exited with status 1 in that stage and the manifest was not
\* opened for writing and has its old content; the same for update_arrays
\* and an arrays file that lacks a tag.
C4_MissingMarkerNoWrite ==
    /\ (Done("copy") /\ pc # "copied" /\ ~HasBoth(manifest0, "start", "end")) =>
          /\ pc = "exit"
          /\ exitCode = 1
          /\ failed = "manifest"
          /\ manifest = manifest0
          /\ "manifest" \notin writes
    /\ (Done("manifest") /\ pc # "manifested" /\ ~HasBoth(arrays0, "open", "close")) =>
          /\ pc = "exit"
          /\ exitCode = 1
          /\ failed = "arrays"
          /\ arrays = arrays0
          /\ "arrays" \notin writes

\* update_manifest has ended the process on a manifest that has the start
\* marker and lacks the end marker, with icon packs to write
C4_Witness ==
    /\ pc = "exit"
    /\ failed = "manifest"
    /\ Find(manifest0, "start") # 0
    /\ Find(manifest0, "end") = 0
    /\ Len(PacksOf(tree0)) > 0

----------------------------------------------------------------------------
(* C5 *)

StageOrder == <<"rewrite", "copy", "manifest", "arrays">>

StageIndex(stage) == CHOOSE i \in DOMAIN StageOrder : StageOrder[i] = stage

\* C5: in prepare-iconpacks.py the completed stages are always a prefix of
\* rewrite, copy, manifest, arrays; a stage that fails ends the process with
\* status 1 at once: the stages after it have not run and their target files
\* are untouched; the success message comes after all four stages.
C5_StagesInOrderFailFast ==
    script = "prepare" =>
        /\ Len(completed) <= 4
        /\ completed = SubSeq(StageOrder, 1, Len(completed))
        /\ (failed # "none") =>
              /\ pc = "exit"
              /\ exitCode = 1
              /\ Len(completed) = StageIndex(failed) - 1
              /\ failed = "rewrite" => drawable = << >> /\ "drawable" \notin writes
              /\ failed \in {"rewrite", "copy"} =>
                    manifest = manifest0 /\ "manifest" \notin writes
              /\ failed \in {"rewrite", "copy", "manifest"} =>
                    arrays = arrays0 /\ "arrays" \notin writes
        /\ (exitCode = 1) => (pc = "exit" /\ failed # "none")
        /\ (pc = "done" \/ exitCode = 0) =>
              (pc = "done" /\ exitCode = 0 /\ failed = "none" /\ completed = StageOrder)

\* the copy loop failed after the reference rewrite, with files to copy and
\* target files that the later stages would have rewritten
C5_Witness ==
    /\ script = "prepare"
    /\ pc = "exit"
    /\ failed = "copy"
    /\ completed = <<"rewrite">>
    /\ Sources(tree0) # {}
    /\ HasBoth(manifest0, "start", "end")
    /\ HasBoth(arrays0, "open", "close")

----------------------------------------------------------------------------
(* C10 *)

\* the position of file <<k, f>> among the files the script takes from a pack
Rank(pack, x) ==
    Cardinality({ y \in PackSources(pack) :
                    y[1] < x[1] \/ (y[1] = x[1] /\ y[2] <= x[2]) })

\* C10: after a complete run, for every pack and every file the script takes
\* from it, at the file's position, mapping_source_<slug> holds
\* "<package directory name>:<basename>" and replacement_<slug> holds
\* "<basename>_<lower-cased normalized package>_<slug>", which is the name
\* without extension of a file of the drawable directory.
C10_ItemsPairUp ==
    pc = "done" =>
        LET span == Span(arrays, "open", "close")
            packs == PacksOf(tree0)
        IN \A p \in DOMAIN packs :
              /\ Len(span[3 * p - 1].items) = Len(span[3 * p].items)
              /\ \A x \in PackSources(packs[p]) :
                    LET file == packs[p].entries[x[1]].files[x[2]].name
                        package == packs[p].entries[x[1]].name
                        i == Rank(packs[p], x)
                    IN /\ span[3 * p - 1].items[i]
                            = package \o <<":">> \o Splitext(file)[1]
                       /\ span[3 * p].items[i]
                            = Splitext(file)[1] \o <<"_">>
                                \o Lower(normalize_package_name(package)) \o <<"_">>
                                \o Slug(packs[p].name)
                       /\ span[3 * p].items[i] \o Lower(Splitext(file)[2])
                            \in DOMAIN drawable

\* a complete run over a pack with two package directories, one of them
\* renamed by the normalization
C10_Witness ==
    /\ pc = "done"
    /\ \E p \in DOMAIN PacksOf(tree0) :
          \E x, y \in PackSources(PacksOf(tree0)[p]) :
              /\ x[1] # y[1]
              /\ normalize_package_name(PacksOf(tree0)[p].entries[x[1]].name)
                   # PacksOf(tree0)[p].entries[x[1]].name

----------------------------------------------------------------------------
(* C6, C7: checked under SpecNames *)

\* C6: normalize_package_name maps com.android.systemui to systemui,
\* com.android.settings to settings and every other name to itself, and
\* maps its own result to itself.
C6_NormalizeTotalStable ==
    fn = "normalize" =>
        /\ arg = COM_ANDROID_SYSTEMUI => res[1] = SYSTEMUI
        /\ arg = COM_ANDROID_SETTINGS => res[1] = SETTINGS
        /\ arg \notin {COM_ANDROID_SYSTEMUI, COM_ANDROID_SETTINGS} => res[1] = arg
        /\ Len(res) = 2 => res[2] = res[1]

\* com.android.settings was normalized twice
C6_Witness == fn = "normalize" /\ Len(res) = 2 /\ arg = COM_ANDROID_SETTINGS

\* C7: slugging the slug of a pack name gives the slug again.
C7_SlugIdempotent == (fn = "slug" /\ Len(res) = 2) => res[2] = res[1]

\* a name with an upper-case letter and a character outside a-z, A-Z, 0-9
\* was slugged twice
C7_Witness ==
    /\ fn = "slug"
    /\ Len(res) = 2
    /\ \E i \in DOMAIN arg : arg[i] \in UpperSet
    /\ \E i \in DOMAIN arg : arg[i] \notin Alnum

====
